---- MODULE Spec2Model ----
(***************************************************************************)
(* Model of assignments/simulate_ratings.py: the rating generation loop,   *)
(* the DataFrame built from it, the per-person and per-product summaries,  *)
(* the pivot and the CSV export.                                           *)
(*                                                                         *)
(* Numbers.  Every real number of the script is held in hundredths         *)
(* (4.2 is 420, a noise of -0.25 is -25), so base + bias + noise, the      *)
(* clamp and round(rating * 2) / 2 are exact integer computations.  A mean *)
(* is the exact fraction num/den (num in hundredths).  The script's        *)
(* float64 arithmetic agrees with this wherever the operands are decimal   *)
(* values of the tables and noise in hundredths.                           *)
(***************************************************************************)
EXTENDS Integers, Sequences, FiniteSets, TLC

VARIABLES pc, stream, rngPos, person_idx, product_idx,
          base_score, bias, noise, rating, ratings_data,
          df, person_avg, person_report, product_avg, product_report,
          pivot_table, error, csv

vars == <<pc, stream, rngPos, person_idx, product_idx,
          base_score, bias, noise, rating, ratings_data,
          df, person_avg, person_report, product_avg, product_report,
          pivot_table, error, csv>>

(* ------------------------------ bounds --------------------------------- *)

\* The loop runs over the first NumPeople people and NumProducts products.
NumPeople == 2
NumProducts == 2
\* Longest rating collection handed to the Summarizer on its own.
MaxRecords == 3
\* Largest noise (hundredths) tried on the rating computation on its own.
MaxNoise == 150

(* ------------------------------ tables --------------------------------- *)

products == <<"Laptop Pro", "Wireless Headphones", "Smart Watch",
              "Tablet Mini", "Gaming Mouse">>

people == <<"Alice", "Bob", "Carol", "David", "Emma",
            "Frank", "Grace", "Henry", "Iris", "Jack">>

product_base_scores ==
    [p \in {products[k] : k \in DOMAIN products} |->
        CASE p = "Laptop Pro" -> 420
          [] p = "Wireless Headphones" -> 380
          [] p = "Smart Watch" -> 350
          [] p = "Tablet Mini" -> 300
          [] p = "Gaming Mouse" -> 400]

person_bias ==
    [p \in {people[k] : k \in DOMAIN people} |->
        CASE p = "Alice" -> 80
          [] p = "Bob" -> 30
          [] p = "Carol" -> -20
          [] p = "David" -> 0
          [] p = "Emma" -> 50
          [] p = "Frank" -> -50
          [] p = "Grace" -> 10
          [] p = "Henry" -> -30
          [] p = "Iris" -> 40
          [] p = "Jack" -> -10]

Min2(a, b) == IF a < b THEN a ELSE b

\* The people and products the bounded loop iterates over.
LoopPeople == SubSeq(people, 1, Min2(NumPeople, Len(people)))
LoopProducts == SubSeq(products, 1, Min2(NumProducts, Len(products)))

PeopleSet == {LoopPeople[k] : k \in DOMAIN LoopPeople}
ProductSet == {LoopProducts[k] : k \in DOMAIN LoopProducts}
NumPairs == Len(LoopPeople) * Len(LoopProducts)

(* --------------------------- random source ----------------------------- *)

\* Values np.random.normal(0, 0.3) may return, in hundredths: one far in the
\* lower tail, and two that put base + bias + noise on a tie or above 5.
NoiseValues == {-400, -25, 25}

\* The generator yields one fixed stream of values per seed.  Which stream
\* seed 42 yields is left open: `stream` holds the part of it drawn so far,
\* a value is chosen when it is first drawn and replayed when the generator
\* is at that position again.  rngPos is the number of values consumed
\* since the seeding.
\* np.random.seed(42) puts the generator at the start of that stream,
\* whatever position it had.
SeedStateKept(pos) == pos
SeedState(pos) == 0

\* The values np.random.normal may return at position pos of the stream.
NormalAt(pos) ==
    IF pos < Len(stream) THEN {stream[pos + 1]} ELSE NoiseValues

(* ------------------------- rating computation -------------------------- *)

\* Line 50: max(1, min(5, rating)), on hundredths.
ClampUpperOnly(x) == IF x < 500 THEN x ELSE 500
Clamp(x) == LET lo == IF x < 500 THEN x ELSE 500
            IN  IF lo > 100 THEN lo ELSE 100

\* Python's round(x) for a float x given in hundredths: the nearest integer,
\* an exact half going to the even neighbour.
PyRoundHalfUp(x) == (x + 50) \div 100
PyRound(x) ==
    LET f == x \div 100
        r == x % 100
    IN  IF r < 50 THEN f
        ELSE IF r > 50 THEN f + 1
        ELSE IF f % 2 = 0 THEN f ELSE f + 1

\* Lines 47-53: rating = base + bias + noise; clamp; round(rating*2)/2.
ComputeRating(b, s, n) ==
    LET raw == b + s + n
        clamped == Clamp(raw)
    IN  (PyRound(clamped * 2) * 100) \div 2

(* ------------------------------ loop ----------------------------------- *)

\* for person in people: for product in products -- the indices of the
\* iteration after (i, j); <<0, 0>> when both loops are exhausted.
NextIndexProductMajor(i, j) ==
    IF i < Len(LoopPeople) THEN <<i + 1, j>>
    ELSE IF j < Len(LoopProducts) THEN <<1, j + 1>>
    ELSE <<0, 0>>
NextIndexShort(i, j) ==
    IF j < Len(LoopProducts) - 1 THEN <<i, j + 1>>
    ELSE IF i < Len(LoopPeople) THEN <<i + 1, 1>>
    ELSE <<0, 0>>
NextIndex(i, j) ==
    IF j < Len(LoopProducts) THEN <<i, j + 1>>
    ELSE IF i < Len(LoopPeople) THEN <<i + 1, 1>>
    ELSE <<0, 0>>

(* ---------------------------- summarizer ------------------------------- *)

\* Python's string order on the names of the two tables.
AlphaOrder == <<"Alice", "Bob", "Carol", "David", "Emma", "Frank",
                "Gaming Mouse", "Grace", "Henry", "Iris", "Jack",
                "Laptop Pro", "Smart Watch", "Tablet Mini",
                "Wireless Headphones">>
AlphaRank(s) == CHOOSE k \in DOMAIN AlphaOrder : AlphaOrder[k] = s

RECURSIVE SortedSeq(_)
SortedSeq(S) ==
    IF S = {} THEN <<>>
    ELSE LET m == CHOOSE x \in S : \A y \in S : AlphaRank(x) <= AlphaRank(y)
         IN  <<m>> \o SortedSeq(S \ {m})

ColumnValues(d, col) == {d[k][col] : k \in DOMAIN d}

RECURSIVE SumRatings(_)
SumRatings(s) ==
    IF s = <<>> THEN 0 ELSE Head(s).Rating + SumRatings(Tail(s))

\* df.groupby(col)['Rating'].mean(): one entry per value of the column, in
\* the order of the sorted group keys; the mean is the fraction num/den.
GroupByMeanUngrouped(d, col) ==
    LET keys == SortedSeq(ColumnValues(d, col))
    IN  [k \in DOMAIN keys |->
            [key |-> keys[k], num |-> SumRatings(d), den |-> Len(d)]]
GroupByMean(d, col) ==
    LET keys == SortedSeq(ColumnValues(d, col))
    IN  [k \in DOMAIN keys |->
            LET g == SelectSeq(d, LAMBDA row : row[col] = keys[k])
            IN  [key |-> keys[k], num |-> SumRatings(g), den |-> Len(g)]]

MeanGE(a, b) == a.num * b.den >= b.num * a.den

\* .sort_values(ascending=False): the entries by descending mean.  The
\* default sort is not stable, so entries with equal means come out in any
\* order.
SortValuesDesc(s) ==
    {q \in {[k \in DOMAIN s |-> s[p[k]]] : p \in Permutations(DOMAIN s)} :
        \A a, b \in DOMAIN q : a < b => MeanGE(q[a], q[b])}

\* Line 76.
TendencyInclusive(avg) ==
    IF avg.num >= 350 * avg.den THEN "generous"
    ELSE IF avg.num < 300 * avg.den THEN "harsh"
    ELSE "neutral"
Tendency(avg) ==
    IF avg.num > 350 * avg.den THEN "generous"
    ELSE IF avg.num < 300 * avg.den THEN "harsh"
    ELSE "neutral"

\* Line 83.
QualityInclusive(avg) ==
    IF avg.num > 400 * avg.den THEN "excellent"
    ELSE IF avg.num > 350 * avg.den THEN "good"
    ELSE IF avg.num >= 300 * avg.den THEN "average"
    ELSE "poor"
Quality(avg) ==
    IF avg.num > 400 * avg.den THEN "excellent"
    ELSE IF avg.num > 350 * avg.den THEN "good"
    ELSE IF avg.num > 300 * avg.den THEN "average"
    ELSE "poor"

\* f"{avg_rating:.2f}": the mean rounded to hundredths, an exact half going
\* to the even neighbour (with at most 10 records in a group every such half
\* is a multiple of 1/8, which float64 holds exactly), as text.
Format2f(avg) ==
    LET q == avg.num \div avg.den
        r == avg.num % avg.den
        h == IF 2 * r < avg.den THEN q
             ELSE IF 2 * r > avg.den THEN q + 1
             ELSE IF q % 2 = 0 THEN q ELSE q + 1
    IN  ToString(h \div 100) \o "." \o ToString((h % 100) \div 10)
            \o ToString(h % 10)

\* The lines printed by the loop at 75-77.
PersonReport(avgs) ==
    [k \in DOMAIN avgs |->
        [name |-> avgs[k].key, avg |-> Format2f(avgs[k]),
         label |-> Tendency(avgs[k])]]

\* The lines printed by the loop at 82-84.
ProductReport(avgs) ==
    [k \in DOMAIN avgs |->
        [name |-> avgs[k].key, avg |-> Format2f(avgs[k]),
         label |-> Quality(avgs[k])]]

\* The value pandas puts in a cell of the pivot that no row supplies.
NaN == -1

\* df.pivot refuses an (index, columns) pair that occurs in two rows.
HasDuplicatesIgnored(d) == FALSE
HasDuplicates(d) ==
    \E a, b \in DOMAIN d :
        a # b /\ d[a].Person = d[b].Person /\ d[a].Product = d[b].Product

\* The reshaped frame: sorted row labels, sorted column labels, one cell per
\* (row label, column label).
PivotMatrix(d, idx, cols) ==
    [index |-> SortedSeq(ColumnValues(d, idx)),
     columns |-> SortedSeq(ColumnValues(d, cols)),
     values |->
        [rc \in ColumnValues(d, idx) \X ColumnValues(d, cols) |->
            LET hits == {k \in DOMAIN d :
                            d[k][idx] = rc[1] /\ d[k][cols] = rc[2]}
            IN  IF hits = {} THEN NaN
                ELSE d[CHOOSE k \in hits : TRUE].Rating]]

\* Line 88: df.pivot(index='Person', columns='Product', values='Rating').
PivotSwapped(d) == PivotMatrix(d, "Product", "Person")
Pivot(d) == PivotMatrix(d, "Person", "Product")

NoMatrix == [index |-> <<>>, columns |-> <<>>, values |-> <<>>]

\* repr of a float that is a multiple of 0.5, as to_csv writes it.
FloatRepr(r) == ToString(r \div 100) \o "." \o ToString((r % 100) \div 10)

\* Line 92: the lines of product_ratings.csv.
CsvText(d) ==
    <<"Person,Product,Rating">> \o
    [k \in DOMAIN d |->
        d[k].Person \o "," \o d[k].Product \o "," \o FloatRepr(d[k].Rating)]

(* ------------------------------ program -------------------------------- *)

\* The state of a freshly started process, lines 1-37; the file
\* product_ratings.csv and the stream of seed 42 are not the process's.
FreshProcess ==
    /\ pc = "generate"
    /\ person_idx = 1
    /\ product_idx = 1
    /\ base_score = 0
    /\ bias = 0
    /\ noise = 0
    /\ rating = 0
    /\ ratings_data = <<>>
    /\ df = <<>>
    /\ person_avg = <<>>
    /\ person_report = <<>>
    /\ product_avg = <<>>
    /\ product_report = <<>>
    /\ pivot_table = NoMatrix
    /\ error = "none"

Init ==
    /\ FreshProcess
    /\ stream = <<>>
    /\ rngPos = SeedState(0)
    /\ csv = <<>>

\* One iteration of the inner loop body, lines 40-59.
GenerateRating ==
    /\ pc = "generate"
    /\ \E n \in NormalAt(rngPos) :
        LET person == LoopPeople[person_idx]
            product == LoopProducts[product_idx]
            b == product_base_scores[product]
            s == person_bias[person]
            r == ComputeRating(b, s, n)
            nxt == NextIndex(person_idx, product_idx)
        IN  /\ base_score' = b
            /\ bias' = s
            /\ noise' = n
            /\ stream' = IF rngPos < Len(stream) THEN stream
                         ELSE Append(stream, n)
            /\ rngPos' = rngPos + 1
            /\ rating' = r
            /\ ratings_data' = Append(ratings_data,
                   [Person |-> person, Product |-> product, Rating |-> r])
            /\ IF nxt = <<0, 0>>
                  THEN /\ pc' = "dataframe"
                       /\ UNCHANGED <<person_idx, product_idx>>
                  ELSE /\ pc' = "generate"
                       /\ person_idx' = nxt[1]
                       /\ product_idx' = nxt[2]
    /\ UNCHANGED <<df, person_avg, person_report, product_avg,
                   product_report, pivot_table, error, csv>>

\* Line 62: df = pd.DataFrame(ratings_data).
CreateDataFrame ==
    /\ pc = "dataframe"
    /\ df' = ratings_data
    /\ pc' = "person_avg"
    /\ UNCHANGED <<stream, rngPos, person_idx, product_idx, base_score,
                   bias, noise, rating, ratings_data, person_avg,
                   person_report, product_avg, product_report, pivot_table,
                   error, csv>>

\* Lines 74-77.  A frame built from no records has no 'Person' column and
\* groupby raises KeyError.
PersonAvg ==
    /\ pc = "person_avg"
    /\ IF df = <<>>
          THEN /\ pc' = "error"
               /\ error' = "KeyError"
               /\ UNCHANGED <<person_avg, person_report>>
          ELSE /\ \E sorted \in SortValuesDesc(GroupByMean(df, "Person")) :
                    /\ person_avg' = sorted
                    /\ person_report' = PersonReport(sorted)
               /\ pc' = "product_avg"
               /\ UNCHANGED error
    /\ UNCHANGED <<stream, rngPos, person_idx, product_idx, base_score,
                   bias, noise, rating, ratings_data, df, product_avg,
                   product_report, pivot_table, csv>>

\* Lines 81-84.
ProductAvg ==
    /\ pc = "product_avg"
    /\ \E sorted \in SortValuesDesc(GroupByMean(df, "Product")) :
            /\ product_avg' = sorted
            /\ product_report' = ProductReport(sorted)
    /\ pc' = "pivot"
    /\ UNCHANGED <<stream, rngPos, person_idx, product_idx, base_score,
                   bias, noise, rating, ratings_data, df, person_avg,
                   person_report, pivot_table, error, csv>>

\* Lines 88-89.  pivot raises ValueError ("Index contains duplicate
\* entries, cannot reshape") and the script ends there.
PivotStep ==
    /\ pc = "pivot"
    /\ IF HasDuplicates(df)
          THEN /\ pc' = "error"
               /\ error' = "ValueError"
               /\ UNCHANGED pivot_table
          ELSE /\ pivot_table' = Pivot(df)
               /\ pc' = "to_csv"
               /\ UNCHANGED error
    /\ UNCHANGED <<stream, rngPos, person_idx, product_idx, base_score,
                   bias, noise, rating, ratings_data, df, person_avg,
                   person_report, product_avg, product_report, csv>>

\* Lines 92-93.
ToCsv ==
    /\ pc = "to_csv"
    /\ csv' = CsvText(df)
    /\ pc' = "done"
    /\ UNCHANGED <<stream, rngPos, person_idx, product_idx, base_score,
                   bias, noise, rating, ratings_data, df, person_avg,
                   person_report, product_avg, product_report, pivot_table,
                   error>>

\* The script is started again: a new process, seeded by lines 6-7, with
\* the file of the previous run still on disk.
RunAgain ==
    /\ pc = "done"
    /\ pc' = "generate"
    /\ person_idx' = 1
    /\ product_idx' = 1
    /\ base_score' = 0
    /\ bias' = 0
    /\ noise' = 0
    /\ rating' = 0
    /\ ratings_data' = <<>>
    /\ df' = <<>>
    /\ person_avg' = <<>>
    /\ person_report' = <<>>
    /\ product_avg' = <<>>
    /\ product_report' = <<>>
    /\ pivot_table' = NoMatrix
    /\ error' = "none"
    /\ rngPos' = SeedState(rngPos)
    /\ UNCHANGED <<stream, csv>>

Next ==
    \/ GenerateRating
    \/ CreateDataFrame
    \/ PersonAvg
    \/ ProductAvg
    \/ PivotStep
    \/ ToCsv
    \/ RunAgain

Spec == Init /\ [][Next]_vars

(* ----------------------- the Summarizer on its own --------------------- *)

\* Rating collections the Summarizer is tried on: any sequence of at most
\* MaxRecords records over two people, two products and four rating values,
\* with pairs missing or repeated.
InputPeople == {"Alice", "Bob"}
InputProducts == {"Laptop Pro", "Wireless Headphones"}
InputRatings == {250, 350, 400, 450}
InputRecords ==
    [Person : InputPeople, Product : InputProducts, Rating : InputRatings]
InputCollections ==
    UNION {[1..n -> InputRecords] : n \in 0..MaxRecords}

InitSummarizer ==
    /\ df \in InputCollections
    /\ ratings_data = df
    /\ pc = "person_avg"
    /\ person_idx = 1
    /\ product_idx = 1
    /\ base_score = 0
    /\ bias = 0
    /\ noise = 0
    /\ rating = 0
    /\ person_avg = <<>>
    /\ person_report = <<>>
    /\ product_avg = <<>>
    /\ product_report = <<>>
    /\ pivot_table = NoMatrix
    /\ error = "none"
    /\ stream = <<>>
    /\ rngPos = 0
    /\ csv = <<>>

NextSummarizer ==
    \/ PersonAvg
    \/ ProductAvg
    \/ PivotStep

SpecSummarizer == InitSummarizer /\ [][NextSummarizer]_vars

(* ------------------- the rating computation on its own ----------------- *)

BaseScores == {product_base_scores[p] : p \in DOMAIN product_base_scores}
Biases == {person_bias[p] : p \in DOMAIN person_bias}
WideNoise == (0 - 3 * MaxNoise)..MaxNoise

InitRating ==
    /\ pc = "rate"
    /\ base_score \in BaseScores
    /\ bias \in Biases
    /\ noise \in WideNoise
    /\ rating = 0
    /\ person_idx = 1
    /\ product_idx = 1
    /\ ratings_data = <<>>
    /\ df = <<>>
    /\ person_avg = <<>>
    /\ person_report = <<>>
    /\ product_avg = <<>>
    /\ product_report = <<>>
    /\ pivot_table = NoMatrix
    /\ error = "none"
    /\ stream = <<>>
    /\ rngPos = 0
    /\ csv = <<>>

\* Lines 47-53 applied to the drawn base, bias and noise.
RateOne ==
    /\ pc = "rate"
    /\ rating' = ComputeRating(base_score, bias, noise)
    /\ pc' = "rated"
    /\ UNCHANGED <<stream, rngPos, person_idx, product_idx, base_score,
                   bias, noise, ratings_data, df, person_avg, person_report,
                   product_avg, product_report, pivot_table, error, csv>>

NextRating == RateOne

SpecRating == InitRating /\ [][NextRating]_vars

(* ------------------------------ claims --------------------------------- *)

\* C1: every record appended to the rating collection so far has a rating
\* in [1.0, 5.0] (100..500 hundredths) that is an exact multiple of 0.5,
\* whatever noise was drawn for its pair.
C1_RatingInRange ==
    \A k \in DOMAIN ratings_data :
        /\ ratings_data[k].Rating >= 100
        /\ ratings_data[k].Rating <= 500
        /\ ratings_data[k].Rating % 50 = 0

\* The loop is still running, the first draw pushed base + bias + noise
\* above 5.0 and the second pushed it below 1.0.
C1_Witness ==
    /\ pc = "generate"
    /\ Len(ratings_data) = 2
    /\ stream = <<25, -400>>
    /\ ratings_data[1].Rating = 500
    /\ ratings_data[2].Rating = 100

PairIndices(p, q) ==
    {k \in DOMAIN ratings_data :
        ratings_data[k].Person = p /\ ratings_data[k].Product = q}

\* C2: once the generation loop has finished the rating collection has
\* exactly |people| x |products| records and every (person, product) pair
\* of the two tables occurs in exactly one of them.
C2_EveryPairOnce ==
    pc \in {"dataframe", "person_avg", "product_avg", "pivot", "to_csv",
            "done"} =>
        /\ Len(ratings_data) = Cardinality(PeopleSet) * Cardinality(ProductSet)
        /\ \A p \in PeopleSet, q \in ProductSet :
               Cardinality(PairIndices(p, q)) = 1

\* The loop has just finished and the collection is not empty.
C2_Witness ==
    /\ pc = "dataframe"
    /\ Len(ratings_data) > 1
    /\ df = <<>>

\* C3: one draw per pair and none outside the loop: the number of draws
\* consumed equals the number of records, and the k-th record belongs to
\* the pair (people[k div |products|], products[k mod |products|]), counting
\* from 0, with the rating computed from the k-th value of the stream.
C3_OneDrawPerPairInOrder ==
    /\ rngPos = Len(ratings_data)
    /\ Len(stream) <= Len(LoopPeople) * Len(LoopProducts)
    /\ \A k \in DOMAIN ratings_data :
         LET p == people[((k - 1) \div Len(LoopProducts)) + 1]
             q == products[((k - 1) % Len(LoopProducts)) + 1]
         IN  /\ ratings_data[k].Person = p
             /\ ratings_data[k].Product = q
             /\ ratings_data[k].Rating =
                  ComputeRating(product_base_scores[q], person_bias[p],
                                stream[k])

\* The loop has finished after drawing different values for the first
\* pairs of the first and of the second person.
C3_Witness ==
    /\ pc = "dataframe"
    /\ rngPos = Len(LoopPeople) * Len(LoopProducts)
    /\ stream[1] # stream[2]
    /\ stream[1] # stream[Len(LoopProducts) + 1]
    /\ ratings_data[Len(LoopProducts) + 1].Person = people[2]

\* C4: a run of the script that follows an earlier run (whose export is
\* still on disk) ends with a rating collection whose export is the same
\* text, line by line: same pairs, same order, same rating values.
C4_RunsAgree ==
    (pc = "to_csv" /\ csv # <<>>) => CsvText(df) = csv

\* A second run is about to export, after a stream with different values.
C4_Witness ==
    /\ pc = "to_csv"
    /\ csv # <<>>
    /\ Len(csv) = Len(df) + 1
    /\ stream[1] # stream[2]

PivotFailed == pc = "error" /\ error = "ValueError"
PivotProduced == pc = "to_csv"

RowsOf(d, p, q) == {k \in DOMAIN d : d[k].Person = p /\ d[k].Product = q}

\* Some pair of a person and a product of the collection has no record.
MissingPair(d) ==
    \E p \in ColumnValues(d, "Person"), q \in ColumnValues(d, "Product") :
        RowsOf(d, p, q) = {}

\* Some pair has more than one record.
DuplicatedPair(d) ==
    \E p \in ColumnValues(d, "Person"), q \in ColumnValues(d, "Product") :
        Cardinality(RowsOf(d, p, q)) > 1

C6_TendencyLabels ==
    /\ Len(person_report) = Len(person_avg)
    /\ \A k \in DOMAIN person_report :
         LET m == person_avg[k]
             l == person_report[k].label
         IN  /\ person_report[k].name = m.key
             /\ l \in {"generous", "harsh", "neutral"}
             /\ l = "generous" <=> m.num > 350 * m.den
             /\ l = "harsh" <=> m.num < 300 * m.den
             /\ l = "neutral" <=>
                    (m.num <= 350 * m.den /\ m.num >= 300 * m.den)

\* One person's mean is exactly 3.5 and another's exactly 3.0, both
\* labelled "neutral".
C6_Witness ==
    /\ pc = "product_avg"
    /\ \E a, b \in DOMAIN person_report :
         /\ person_avg[a].num = 350 * person_avg[a].den
         /\ person_report[a].label = "neutral"
         /\ person_avg[b].num = 300 * person_avg[b].den
         /\ person_report[b].label = "neutral"

\* C7: the quality label of a per-product mean m is "excellent" exactly
\* when m > 4.0, "good" exactly when 3.5 < m <= 4.0, "average" exactly when
\* 3.0 < m <= 3.5 and "poor" exactly when m <= 3.0; every mean has exactly
\* one of the four labels.
C7_QualityLabels ==
    /\ Len(product_report) = Len(product_avg)
    /\ \A k \in DOMAIN product_report :
         LET m == product_avg[k]
             l == product_report[k].label
         IN  /\ product_report[k].name = m.key
             /\ l \in {"excellent", "good", "average", "poor"}
             /\ l = "excellent" <=> m.num > 400 * m.den
             /\ l = "good" <=>
                    (m.num > 350 * m.den /\ m.num <= 400 * m.den)
             /\ l = "average" <=>
                    (m.num > 300 * m.den /\ m.num <= 350 * m.den)
             /\ l = "poor" <=> m.num <= 300 * m.den

\* One product's mean is exactly 4.0, labelled "good", and another's is
\* exactly 3.0, labelled "poor".
C7_Witness ==
    /\ pc = "pivot"
    /\ \E a, b \in DOMAIN product_report :
         /\ product_avg[a].num = 400 * product_avg[a].den
         /\ product_report[a].label = "good"
         /\ product_avg[b].num = 300 * product_avg[b].den
         /\ product_report[b].label = "poor"

\* The (person, product, rating) triples of the filled cells of a matrix.
Flatten(m) ==
    {[Person |-> rc[1], Product |-> rc[2], Rating |-> m.values[rc]] :
        rc \in {x \in DOMAIN m.values : m.values[x] # NaN}}

\* C8: the matrix built from a collection the generator produced, flattened
\* back into triples, is exactly the set of the collection's records.
C8_PivotRoundTrip ==
    pc \in {"to_csv", "done"} =>
        /\ Flatten(pivot_table) = {ratings_data[k] : k \in DOMAIN ratings_data}
        /\ Cardinality(Flatten(pivot_table)) = Len(ratings_data)
        /\ Len(pivot_table.index) * Len(pivot_table.columns)
             = Len(ratings_data)

\* The matrix of a generated collection with two different ratings.
C8_Witness ==
    /\ pc = "to_csv"
    /\ Len(ratings_data) = Len(LoopPeople) * Len(LoopProducts)
    /\ ratings_data[1].Rating # ratings_data[2].Rating
    /\ pivot_table # NoMatrix

RECURSIVE SumAt(_, _)
SumAt(d, S) ==
    IF S = {} THEN 0
    ELSE LET k == CHOOSE x \in S : TRUE
         IN  d[k].Rating + SumAt(d, S \ {k})

\* avgs reports, for every value v of column col and for nothing else, the
\* sum of the ratings of exactly the records with that value divided by
\* their number.
MeansAreDirect(avgs, d, col) ==
    /\ {avgs[k].key : k \in DOMAIN avgs} = ColumnValues(d, col)
    /\ Len(avgs) = Cardinality(ColumnValues(d, col))
    /\ \A k \in DOMAIN avgs :
         LET S == {i \in DOMAIN d : d[i][col] = avgs[k].key}
         IN  avgs[k].num * Cardinality(S) = SumAt(d, S) * avgs[k].den

C9_MeansState ==
    /\ (pc \in {"product_avg", "pivot", "to_csv"} \/ PivotFailed)
          => MeansAreDirect(person_avg, df, "Person")
    /\ (pc \in {"pivot", "to_csv"} \/ PivotFailed)
          => MeansAreDirect(product_avg, df, "Product")

\* C9: every per-person and per-product mean the Summarizer reports is the
\* sum of the ratings of exactly that person's (product's) records divided
\* by their number, and no summarizing step changes the rating collection.
C9_MeansAreDirect ==
    /\ []C9_MeansState
    /\ [][df' = df /\ ratings_data' = ratings_data]_vars

\* Both summaries are computed for a collection in which one person has two
\* records and the other one, with different ratings.
C9_Witness ==
    /\ pc = "pivot"
    /\ Len(df) = 3
    /\ Len(person_avg) = 2
    /\ Len(product_avg) = 2
    /\ \E k \in DOMAIN person_avg : person_avg[k].den = 2
    /\ df[1].Rating # df[2].Rating
    /\ df[2].Rating # df[3].Rating

\* The reference: clamp raw to [1.0, 5.0], then take the multiple of 0.5
\* nearest to it, the one with the even double when two are equally near.
RefClampQuantize(raw) ==
    LET c == IF raw < 100 THEN 100 ELSE IF raw > 500 THEN 500 ELSE raw
        dist(n) == IF 100 * n >= 2 * c THEN 100 * n - 2 * c
                   ELSE 2 * c - 100 * n
        n == CHOOSE n \in 2..10 :
                /\ dist(n) <= 50
                /\ dist(n) = 50 => n % 2 = 0
    IN  n * 50

\* C10: for every base, bias and noise the emitted rating is the reference
\* clamp-then-quantize of raw = base + bias + noise; a clamped 3.25 gives
\* 3.0, a clamped 3.75 gives 4.0 and raw 5.25 gives 5.0.
C10_ClampThenQuantize ==
    pc = "rated" =>
        LET raw == base_score + bias + noise
        IN  /\ rating = RefClampQuantize(raw)
            /\ raw = 325 => rating = 300
            /\ raw = 375 => rating = 400
            /\ raw = 525 => rating = 500

\* Base 3.0, bias 0.0 and noise 0.25 were rated: a tie, resolved to 3.0.
C10_Witness ==
    /\ pc = "rated"
    /\ base_score = 300
    /\ bias = 0
    /\ noise = 25
    /\ rating = 300

====
